---- MODULE Spec2Model ----
(***************************************************************************)
(* Data Quality Dashboard (src/app.py): a Streamlit script that fetches    *)
(* the check log from PostgreSQL once (st.cache_data), builds four         *)
(* selectors, filters the dataset and derives summary metrics and charts.  *)
(*                                                                         *)
(* Text values are sequences of one-character strings, so that str.lower() *)
(* and the formatting of the failure rate are computed, not assumed.       *)
(***************************************************************************)
EXTENDS Integers, Sequences, FiniteSets, TLC

VARIABLES
    pc,              \* position of the script run / of the session
    conn,            \* the psycopg2 connection of the running fetch
    closes,          \* number of conn.close() calls on that connection
    raw,             \* result of pl.read_database inside the fetch body
    cache,           \* st.cache_data entry of fetch_data_from_postgres
    df,              \* module-level df (line 111)
    opts,            \* the four option lists built by extract_unique_parameter
    sel,             \* the four values returned by the selectboxes
    filtered_table,  \* line 169
    summary_data,    \* line 177
    failures_by_table, \* line 191, the data handed to px.bar
    fig_check,       \* data handed to px.pie  (line 198)
    fig_trend        \* data handed to px.line (line 202)

vars == <<pc, conn, closes, raw, cache, df, opts, sel, filtered_table,
          summary_data, failures_by_table, fig_check, fig_trend>>

(***************************************************************************)
(* Bounds of the model.                                                    *)
(***************************************************************************)
\* rows of the table when the session fetches it
MaxRows == 2

\* rows of a dataset handed to get_filtered_data and get_failures_by_table
MaxFnRows == 3

\* rows of a dataset handed to get_summary_data
MaxSummaryRows == 10

\* a variable the script has not bound yet
NoData == <<>>

(***************************************************************************)
(* Text.                                                                   *)
(***************************************************************************)
UpperCase == <<"A","B","C","D","E","F","G","H","I","J","K","L","M",
               "N","O","P","Q","R","S","T","U","V","W","X","Y","Z">>

LowerCase == <<"a","b","c","d","e","f","g","h","i","j","k","l","m",
               "n","o","p","q","r","s","t","u","v","w","x","y","z">>

LowerOf ==
    [c \in { UpperCase[i] : i \in 1..26 } |->
        LowerCase[CHOOSE i \in 1..26 : UpperCase[i] = c]]

LowerChar(c) == IF c \in DOMAIN LowerOf THEN LowerOf[c] ELSE c

\* str.lower()
Lower(s) == [i \in 1..Len(s) |-> LowerChar(s[i])]

Digits == <<"0","1","2","3","4","5","6","7","8","9">>

Digit(d) == Digits[d + 1]

RECURSIVE IntToStr(_)
\* decimal rendering of a natural number
IntToStr(n) ==
    IF n < 10 THEN <<Digit(n)>>
    ELSE IntToStr(n \div 10) \o <<Digit(n % 10)>>

s_all == <<"a","l","l">>
s_ALL == <<"A","L","L">>
s_All == <<"A","l","l">>
s_db1 == <<"d","b","1">>
s_db2 == <<"d","b","2">>
s_orders == <<"o","r","d","e","r","s">>
s_users == <<"u","s","e","r","s">>
s_fail == <<"f","a","i","l">>
s_pass == <<"p","a","s","s">>
s_FAIL == <<"F","A","I","L">>
s_Fail == <<"F","a","i","l">>
s_null_check == <<"n","u","l","l">>
s_range_check == <<"r","a","n","g","e">>
s_id == <<"i","d">>
s_name == <<"n","a","m","e">>

(***************************************************************************)
(* The table soda_checks.data_quality_checks.  A stored row carries a      *)
(* native timestamp (here: the hour of a fixed day); the fetch casts it to *)
(* text.                                                                   *)
(***************************************************************************)
DbRow(ds, tn, cn, col, oc, ts) ==
    [data_source |-> ds, table_name |-> tn, check_name |-> cn,
     column_name |-> col, outcome |-> oc, timestamp |-> ts]

\* Rows the table may hold during a session: failures of two tables, a
\* passed check, and a data source that is literally named "all".
TableRows ==
    { DbRow(s_db1, s_orders, s_null_check,  s_id,   s_fail, 8),
      DbRow(s_all, s_users,  s_null_check,  s_id,   s_fail, 8),
      DbRow(s_db1, s_users,  s_range_check, s_name, s_pass, 8) }

\* Rows of the datasets the functions are applied to on their own: also a
\* second timestamp, a third data source and outcomes in other letter cases.
SampleRows ==
    TableRows \cup
    { DbRow(s_db2, s_users,  s_null_check,  s_id,   s_fail, 12),
      DbRow(s_db2, s_orders, s_range_check, s_name, s_FAIL, 12),
      DbRow(s_db1, s_users,  s_range_check, s_name, s_Fail, 12) }

\* Rows that differ in their outcome only
OutcomeRows ==
    { DbRow(s_db1, s_orders, s_null_check, s_id, s_fail, 8),
      DbRow(s_db1, s_orders, s_null_check, s_id, s_pass, 8) }

SeqsUpTo(S, n) == UNION { [1..k -> S] : k \in 0..n }

\* every content of the table at the time of the query
Tables == SeqsUpTo(TableRows, MaxRows)

\* pl.col("timestamp").cast(pl.Utf8) on one value: "HH:00"
TsToUtf8(h) == <<Digit(h \div 10), Digit(h % 10), ":", "0", "0">>

\* df.with_columns(pl.col("timestamp").cast(pl.Utf8))
CastTimestamp(rows) ==
    [i \in 1..Len(rows) |-> [rows[i] EXCEPT !.timestamp = TsToUtf8(@)]]

(***************************************************************************)
(* extract_unique_parameter                                                *)
(***************************************************************************)
Range(s) == { s[i] : i \in 1..Len(s) }

\* all orderings of a finite set, each element once
Orderings(S) ==
    { p \in [1..Cardinality(S) -> S] : \A x \in S : \E i \in 1..Cardinality(S) : p[i] = x }

ColumnValues(d, column) == { d[i][column] : i \in 1..Len(d) }

\* df[column].unique().to_list(): the distinct values, in an order polars
\* does not fix (Series.unique() keeps no order)
Unique(d, column) == Orderings(ColumnValues(d, column))

\* if "all" not in parameter: parameter.insert(0, "all")
InsertAll(parameter) ==
    IF s_all \notin Range(parameter) THEN <<s_all>> \o parameter ELSE parameter

\* the lists extract_unique_parameter may return
extract_unique_parameter(d, column) ==
    { InsertAll(parameter) : parameter \in Unique(d, column) }

(***************************************************************************)
(* get_filtered_data                                                       *)
(***************************************************************************)
\* df[column] == value: one boolean per row
EqMask(d, column, value) == [i \in 1..Len(d) |-> d[i][column] = value]

\* Filter with the selector compared to "all" as typed, not in lower case
Filter_CaseSensitive(d, column, value) ==
    IF value # s_all THEN <<EqMask(d, column, value)>> ELSE <<>>

\* one filter per selector that is not "all" (compared in lower case)
Filter(d, column, value) ==
    IF Lower(value) # s_all THEN <<EqMask(d, column, value)>> ELSE <<>>

Filters(d, data_source, table_name, outcome, timestamp) ==
    Filter(d, "data_source", data_source) \o
    Filter(d, "table_name", table_name) \o
    Filter(d, "outcome", outcome) \o
    Filter(d, "timestamp", timestamp)

RECURSIVE CombineMasks_Or(_)
\* CombineMasks with | in place of &
CombineMasks_Or(filters) ==
    IF Len(filters) = 1 THEN filters[1]
    ELSE LET mask == CombineMasks_Or(SubSeq(filters, 1, Len(filters) - 1))
             f == filters[Len(filters)]
         IN  [i \in DOMAIN mask |-> mask[i] \/ f[i]]

RECURSIVE CombineMasks(_)
\* mask = filters[0]; for f in filters[1:]: mask = mask & f
CombineMasks(filters) ==
    IF Len(filters) = 1 THEN filters[1]
    ELSE LET mask == CombineMasks(SubSeq(filters, 1, Len(filters) - 1))
             f == filters[Len(filters)]
         IN  [i \in DOMAIN mask |-> mask[i] /\ f[i]]

RECURSIVE FilterRows(_, _)
\* df.filter(mask): the rows whose mask is true, in their order
FilterRows(d, mask) ==
    IF d = <<>> THEN <<>>
    ELSE LET rest == FilterRows(Tail(d), Tail(mask))
         IN  IF Head(mask) THEN <<Head(d)>> \o rest ELSE rest

get_filtered_data(d, data_source, table_name, outcome, timestamp) ==
    LET filters == Filters(d, data_source, table_name, outcome, timestamp)
    IN  IF filters # <<>> THEN FilterRows(d, CombineMasks(filters)) ELSE d

(***************************************************************************)
(* get_summary_data                                                        *)
(***************************************************************************)
\* FailedRows with the outcome compared in lower case
FailedRows_AnyCase(d) ==
    FilterRows(d, [i \in 1..Len(d) |-> Lower(d[i].outcome) = s_fail])

\* df.filter(pl.col("outcome") == "fail")
FailedRows(d) == FilterRows(d, EqMask(d, "outcome", s_fail))

\* RoundHalfEven cutting the further digits off instead of rounding
RoundDown(num, den) == num \div den

\* round(num / den) for num >= 0, den > 0, ties to the even neighbour
RoundHalfEven(num, den) ==
    LET q == num \div den
        r == num % den
    IN  IF 2 * r > den \/ (2 * r = den /\ q % 2 = 1) THEN q + 1 ELSE q

\* f"{x:.1f}%" of x = tenths / 10
FormatTenths(tenths) ==
    IntToStr(tenths \div 10) \o <<".">> \o <<Digit(tenths % 10)>> \o <<"%">>

\* f"{(total_failed / total_checks * 100):.1f}%" if total_checks > 0 else "0.0%"
failure_rate(total_failed, total_checks) ==
    IF total_checks > 0
    THEN FormatTenths(RoundHalfEven(total_failed * 1000, total_checks))
    ELSE <<"0", ".", "0", "%">>

get_summary_data(d) ==
    LET total_checks == Len(d)
        total_failed == Len(FailedRows(d))
    IN  [k \in {"Total Checks", "Total Failed", "Failure Rate"} |->
            CASE k = "Total Checks" -> total_checks
              [] k = "Total Failed" -> total_failed
              [] k = "Failure Rate" -> failure_rate(total_failed, total_checks)]

(***************************************************************************)
(* get_failures_by_table                                                   *)
(***************************************************************************)
\* .group_by("table_name").agg(pl.len().alias("Failures")) and the rename:
\* one group per table name among the rows, with its number of rows
GroupByTable(d) ==
    { [Table |-> k, Failures |-> Cardinality({ i \in 1..Len(d) : d[i].table_name = k })]
      : k \in ColumnValues(d, "table_name") }

\* .sort("Failures", descending=True)
SortedDescending(p) ==
    \A i, j \in 1..Len(p) : i < j => p[i].Failures >= p[j].Failures

\* get_failures_by_table without its filter on the outcome
get_failures_by_table_Unfiltered(table) ==
    { p \in Orderings(GroupByTable(table)) : SortedDescending(p) }

\* The frames get_failures_by_table may return: group_by fixes no order of
\* the groups (maintain_order is off) and the sort does not order equal counts.
get_failures_by_table(table) ==
    { p \in Orderings(GroupByTable(FailedRows(table))) : SortedDescending(p) }

(***************************************************************************)
(* Frames written into the script (lines 127-135).                         *)
(***************************************************************************)
failures_by_check ==
    << [CheckType |-> "Null Check",   Failures |-> 50],
       [CheckType |-> "Range Check",  Failures |-> 40],
       [CheckType |-> "Format Check", Failures |-> 33] >>

FailedChecks ==
    <<25, 27, 30, 32, 35, 28, 20, 22, 25, 33, 36, 40, 38, 29, 22, 24, 28, 35, 30, 33, 29>>

\* pd.date_range(start="2024-04-01", periods=21, freq="D"): April 1st to 21st
trend_data ==
    [i \in 1..Len(FailedChecks) |->
        [Date |-> <<2024, 4, i>>, FailedChecks |-> FailedChecks[i]]]

(***************************************************************************)
(* The session.                                                            *)
(***************************************************************************)
Fields == {"data_source", "table_name", "timestamp", "outcome"}

\* CacheHit of a fetch without @st.cache_data
CacheHit_Never == FALSE

\* @st.cache_data: a stored return value is handed back, the body is not run.
\* The cache holds at most one entry: the script always passes the same arguments.
CacheHit == cache # {}

CachedValue == CHOOSE d \in cache : TRUE

\* the widgets before the first render hold nothing
NoWidgets == [f \in Fields |-> NoData]

\* lines 113-116: one option list per selector
OptionLists(d) ==
    { [f \in Fields |->
          CASE f = "data_source" -> a
            [] f = "table_name"  -> b
            [] f = "timestamp"   -> c
            [] f = "outcome"     -> e]
      : a \in extract_unique_parameter(d, "data_source"),
        b \in extract_unique_parameter(d, "table_name"),
        c \in extract_unique_parameter(d, "timestamp"),
        e \in extract_unique_parameter(d, "outcome") }

\* st.selectbox(label, options): the first option unless the widget, which is
\* identified by its label and options, already holds a value
Selectbox(options, held_options, held_value) ==
    IF held_options = options THEN held_value ELSE options[1]

\* lines 113-206: the selectors, the filtered table, the summary, the charts
Render(d, held_opts, held_sel) ==
    \E o \in OptionLists(d) :
        LET s  == [f \in Fields |-> Selectbox(o[f], held_opts[f], held_sel[f])]
            ft == get_filtered_data(d, s["data_source"], s["table_name"],
                                    s["outcome"], s["timestamp"])
        IN  /\ opts' = o
            /\ sel' = s
            /\ filtered_table' = ft
            /\ summary_data' = get_summary_data(ft)
            /\ \E t \in get_failures_by_table(ft) : failures_by_table' = t
            /\ fig_check' = failures_by_check
            /\ fig_trend' = trend_data
            /\ pc' = "rendered"

\* A run of the script from its top: line 111 takes the cached dataset and the
\* rest of the script runs, or the body of fetch_data_from_postgres is entered.
\* held_sel is what the widgets hold when the run starts.
RunScript(held_sel) ==
    IF CacheHit
    THEN /\ df' = CachedValue
         /\ Render(CachedValue, opts, held_sel)
         /\ UNCHANGED <<conn, closes, raw, cache>>
    ELSE /\ pc' = "connect"
         /\ sel' = held_sel
         /\ UNCHANGED <<conn, closes, raw, cache, df, opts, filtered_table,
                        summary_data, failures_by_table, fig_check, fig_trend>>

\* the page is opened
Open ==
    /\ pc = "start"
    /\ RunScript(sel)

\* psycopg2.connect (line 28)
ConnectOk ==
    /\ pc = "connect"
    /\ conn' = "open"
    /\ closes' = 0
    /\ pc' = "try"
    /\ UNCHANGED <<raw, cache, df, opts, sel, filtered_table, summary_data,
                   failures_by_table, fig_check, fig_trend>>

\* psycopg2.connect raises: no connection, the error leaves the function
ConnectFail ==
    /\ pc = "connect"
    /\ conn' = "none"
    /\ closes' = 0
    /\ pc' = "error"
    /\ UNCHANGED <<raw, cache, df, opts, sel, filtered_table, summary_data,
                   failures_by_table, fig_check, fig_trend>>

\* pl.read_database (line 36): the rows of the table at this moment
ReadOk ==
    /\ pc = "try"
    /\ \E rows \in Tables : raw' = rows
    /\ pc' = "cast"
    /\ UNCHANGED <<conn, closes, cache, df, opts, sel, filtered_table,
                   summary_data, failures_by_table, fig_check, fig_trend>>

ReadFail ==
    /\ pc = "try"
    /\ pc' = "finally_raise"
    /\ UNCHANGED <<conn, closes, raw, cache, df, opts, sel, filtered_table,
                   summary_data, failures_by_table, fig_check, fig_trend>>

\* df.with_columns(...) (lines 37-39)
CastOk ==
    /\ pc = "cast"
    /\ raw' = CastTimestamp(raw)
    /\ pc' = "finally_return"
    /\ UNCHANGED <<conn, closes, cache, df, opts, sel, filtered_table,
                   summary_data, failures_by_table, fig_check, fig_trend>>

CastFail ==
    /\ pc = "cast"
    /\ pc' = "finally_raise"
    /\ UNCHANGED <<conn, closes, raw, cache, df, opts, sel, filtered_table,
                   summary_data, failures_by_table, fig_check, fig_trend>>

\* finally: conn.close() (lines 40-41), then the return or the pending error
AfterFinally == IF pc = "finally_return" THEN "return" ELSE "raise"

\* Close of a fetch that calls conn.close() after the try block, not in finally
Close_OnSuccessOnly ==
    /\ pc \in {"finally_return", "finally_raise"}
    /\ conn' = IF pc = "finally_return" THEN "closed" ELSE conn
    /\ closes' = IF pc = "finally_return" THEN closes + 1 ELSE closes
    /\ pc' = AfterFinally
    /\ UNCHANGED <<raw, cache, df, opts, sel, filtered_table, summary_data,
                   failures_by_table, fig_check, fig_trend>>

Close ==
    /\ pc \in {"finally_return", "finally_raise"}
    /\ conn' = "closed"
    /\ closes' = closes + 1
    /\ pc' = AfterFinally
    /\ UNCHANGED <<raw, cache, df, opts, sel, filtered_table, summary_data,
                   failures_by_table, fig_check, fig_trend>>

\* return df (line 42): the cache keeps it, line 111 binds it, the script goes on
Return ==
    /\ pc = "return"
    /\ cache' = {raw}
    /\ df' = raw
    /\ Render(raw, opts, sel)
    /\ UNCHANGED <<conn, closes, raw>>

\* the error leaves fetch_data_from_postgres and ends the run
Raise ==
    /\ pc = "raise"
    /\ pc' = "error"
    /\ UNCHANGED <<conn, closes, raw, cache, df, opts, sel, filtered_table,
                   summary_data, failures_by_table, fig_check, fig_trend>>

\* the user reloads the page after a failed run
Reload ==
    /\ pc = "error"
    /\ RunScript(sel)

\* the user picks an option of one selector: the script runs again
Select ==
    /\ pc = "rendered"
    /\ \E f \in Fields : \E v \in Range(opts[f]) :
          /\ v # sel[f]
          /\ RunScript([sel EXCEPT ![f] = v])

Init ==
    /\ pc = "start"
    /\ conn = "none"
    /\ closes = 0
    /\ raw = NoData
    /\ cache = {}
    /\ df = NoData
    /\ opts = NoWidgets
    /\ sel = NoWidgets
    /\ filtered_table = NoData
    /\ summary_data = NoData
    /\ failures_by_table = NoData
    /\ fig_check = NoData
    /\ fig_trend = NoData

Next ==
    \/ Open
    \/ ConnectOk
    \/ ConnectFail
    \/ ReadOk
    \/ ReadFail
    \/ CastOk
    \/ CastFail
    \/ Close
    \/ Return
    \/ Raise
    \/ Reload
    \/ Select

Spec == Init /\ [][Next]_vars


(***************************************************************************)
(* The functions on their own: a dataset is drawn, one function is applied *)
(* to it.  get_failures_by_table may be applied again to the same dataset. *)
(***************************************************************************)
\* every dataset the functions are applied to (timestamps already text)
Datasets == { CastTimestamp(t) : t \in SeqsUpTo(SampleRows, MaxFnRows) }

\* the wildcard in three letter cases, values that occur and one that does not
Selections ==
    { [f \in Fields |->
          CASE f = "data_source" -> a
            [] f = "table_name"  -> b
            [] f = "timestamp"   -> c
            [] f = "outcome"     -> e]
      : a \in {s_all, s_ALL, s_All, s_db1, s_db2},
        b \in {s_all, s_ALL, s_orders, s_users},
        c \in {s_all, s_All, TsToUtf8(8)},
        e \in {s_all, s_ALL, s_fail, s_FAIL} }

Untouched ==
    /\ conn = "none"
    /\ closes = 0
    /\ raw = NoData
    /\ cache = {}
    /\ opts = NoWidgets
    /\ sel = NoWidgets
    /\ filtered_table = NoData
    /\ summary_data = NoData
    /\ failures_by_table = NoData
    /\ fig_check = NoData
    /\ fig_trend = NoData

InitFn ==
    /\ pc = "call"
    /\ df \in Datasets
    /\ Untouched

\* filtered_table = get_filtered_data(df, ...) for any four arguments
ApplyFilter ==
    /\ pc = "call"
    /\ \E s \in Selections :
          /\ sel' = s
          /\ filtered_table' = get_filtered_data(df, s["data_source"], s["table_name"],
                                                 s["outcome"], s["timestamp"])
    /\ pc' = "filtered"
    /\ UNCHANGED <<conn, closes, raw, cache, df, opts, summary_data,
                   failures_by_table, fig_check, fig_trend>>

\* summary_data = get_summary_data(df)
Summarize ==
    /\ pc = "call"
    /\ summary_data' = get_summary_data(df)
    /\ pc' = "summarized"
    /\ UNCHANGED <<conn, closes, raw, cache, df, opts, sel, filtered_table,
                   failures_by_table, fig_check, fig_trend>>

\* failures_by_table = get_failures_by_table(df), also a second time
FailuresByTable ==
    /\ pc \in {"call", "grouped"}
    /\ \E t \in get_failures_by_table(df) : failures_by_table' = t
    /\ pc' = "grouped"
    /\ UNCHANGED <<conn, closes, raw, cache, df, opts, sel, filtered_table,
                   summary_data, fig_check, fig_trend>>

NextFn ==
    \/ ApplyFilter
    \/ Summarize
    \/ FailuresByTable

SpecFn == InitFn /\ [][NextFn]_vars

\* get_summary_data on datasets of up to MaxSummaryRows rows
InitSummary ==
    /\ pc = "call"
    /\ df \in { CastTimestamp(t) : t \in SeqsUpTo(OutcomeRows, MaxSummaryRows) }
    /\ Untouched

NextSummary == Summarize

SpecSummary == InitSummary /\ [][NextSummary]_vars


(***************************************************************************)
(* Properties.                                                             *)
(***************************************************************************)
\* "all" in every letter case
AllSpellings ==
    { <<a, b, c>> : a \in {"a", "A"}, b \in {"l", "L"}, c \in {"l", "L"} }

IsActive(s, f) == s[f] \notin AllSpellings

\* a record satisfies every active equality predicate of the selection
Satisfies(r, s) == \A f \in Fields : IsActive(s, f) => r[f] = s[f]

Occurrences(d, r) == Cardinality({ i \in 1..Len(d) : d[i] = r })

FailingIndexes(d) == { i \in 1..Len(d) : d[i].outcome = s_fail }

RECURSIVE SumOf(_, _)
SumOf(p, column) ==
    IF p = <<>> THEN 0 ELSE p[1][column] + SumOf(Tail(p), column)

\* C1: with all four selectors the wildcard, in any letter case,
\* get_filtered_data returns the dataset unchanged.
C1_WildcardIdentity ==
    (pc = "filtered" /\ \A f \in Fields : ~IsActive(sel, f)) => filtered_table = df

C1_Witness ==
    /\ pc = "filtered"
    /\ sel["data_source"] = s_ALL
    /\ sel["table_name"] = s_ALL
    /\ sel["timestamp"] = s_All
    /\ sel["outcome"] = s_ALL
    /\ Len(df) = MaxFnRows
    /\ filtered_table = df

\* C2: with at least one active selector, the result holds exactly the
\* records that satisfy every active equality predicate: every record of the
\* result satisfies them, a record that satisfies them is in the result as
\* often as in the dataset, and the records keep their order.
C2_ExactlyTheMatches ==
    (pc = "filtered" /\ \E f \in Fields : IsActive(sel, f)) =>
        /\ \A i \in 1..Len(filtered_table) : Satisfies(filtered_table[i], sel)
        /\ \A i \in 1..Len(df) :
              Occurrences(filtered_table, df[i]) =
                  IF Satisfies(df[i], sel) THEN Occurrences(df, df[i]) ELSE 0
        /\ Len(filtered_table) =
              Cardinality({ i \in 1..Len(df) : Satisfies(df[i], sel) })

C2_Witness ==
    /\ pc = "filtered"
    /\ IsActive(sel, "data_source")
    /\ IsActive(sel, "outcome")
    /\ ~IsActive(sel, "table_name")
    /\ Len(filtered_table) = 1
    /\ Len(df) = 3
    /\ \E i \in 1..3 : df[i].data_source = sel["data_source"] /\ df[i].outcome # sel["outcome"]
    /\ \E i \in 1..3 : df[i].data_source # sel["data_source"] /\ df[i].outcome = sel["outcome"]

\* C3: Total Checks is the number of records, Total Failed the number of
\* records whose outcome is exactly "fail" (so "FAIL" and "Fail" are not
\* counted), and Total Failed never exceeds Total Checks.
C3_SummaryCounts ==
    pc = "summarized" =>
        /\ summary_data["Total Checks"] = Len(df)
        /\ summary_data["Total Failed"] = Cardinality(FailingIndexes(df))
        /\ summary_data["Total Failed"] <= summary_data["Total Checks"]

C3_Witness ==
    /\ pc = "summarized"
    /\ Len(df) = 3
    /\ \E i \in 1..3 : df[i].outcome = s_FAIL
    /\ \E i \in 1..3 : df[i].outcome = s_Fail
    /\ summary_data["Total Failed"] = 1

DigitValue(c) == CHOOSE d \in 0..9 : Digits[d + 1] = c

RECURSIVE StrToNat(_)
StrToNat(s) ==
    IF s = <<>> THEN 0
    ELSE 10 * StrToNat(SubSeq(s, 1, Len(s) - 1)) + DigitValue(s[Len(s)])

\* digits, a point, one digit, a percent sign; no leading zero
IsRateText(s) ==
    /\ Len(s) >= 4
    /\ s[Len(s)] = "%"
    /\ s[Len(s) - 2] = "."
    /\ \A i \in (1..(Len(s) - 3)) \cup {Len(s) - 1} : s[i] \in Range(Digits)
    /\ Len(s) > 4 => s[1] # "0"

\* the rate of a well-formed text, in tenths of a percent
RateTenths(s) == 10 * StrToNat(SubSeq(s, 1, Len(s) - 3)) + DigitValue(s[Len(s) - 1])

Distance(a, b) == IF a >= b THEN a - b ELSE b - a

\* C4: the failure rate is "0.0%" for a dataset without records; otherwise
\* it is the text of failed / total * 100 rounded to the nearest tenth,
\* followed by "%", between "0.0%" and "100.0%"; 3 of 10 gives "30.0%".
C4_FailureRate ==
    pc = "summarized" =>
        LET rate   == summary_data["Failure Rate"]
            total  == Len(df)
            failed == Cardinality(FailingIndexes(df))
        IN  IF total = 0
            THEN rate = <<"0", ".", "0", "%">>
            ELSE /\ IsRateText(rate)
                 /\ RateTenths(rate) \in 0..1000
                 /\ 2 * Distance(RateTenths(rate) * total, 1000 * failed) <= total
                 /\ (total = 10 /\ failed = 3) => rate = <<"3", "0", ".", "0", "%">>

C4_Witness ==
    /\ pc = "summarized"
    /\ summary_data["Total Checks"] = 10
    /\ summary_data["Total Failed"] = 3
    /\ summary_data["Failure Rate"] = <<"3", "0", ".", "0", "%">>

\* C5: get_failures_by_table has one row per table name that occurs among
\* the failing records, with the number of failing records of that table,
\* never zero; the counts add up to the number of failing records; without
\* failing records the result is empty.
C5_FailuresByTable ==
    pc = "grouped" =>
        LET p == failures_by_table
        IN  /\ \A i, j \in 1..Len(p) : p[i].Table = p[j].Table => i = j
            /\ { p[i].Table : i \in 1..Len(p) } =
                  { df[i].table_name : i \in FailingIndexes(df) }
            /\ \A i \in 1..Len(p) :
                  /\ p[i].Failures =
                        Cardinality({ k \in FailingIndexes(df) : df[k].table_name = p[i].Table })
                  /\ p[i].Failures > 0
            /\ SumOf(p, "Failures") = Cardinality(FailingIndexes(df))
            /\ FailingIndexes(df) = {} => p = <<>>

C5_Witness ==
    /\ pc = "grouped"
    /\ Len(failures_by_table) = 2
    /\ failures_by_table[1].Failures = 1
    /\ Cardinality(FailingIndexes(df)) = 2
    /\ Len(df) = 3

\* C6: for a fixed dataset get_failures_by_table returns the same rows in
\* the same order on every invocation, in non-increasing order of Failures.
C6_SameOrderEveryRun ==
    [][ /\ pc' = "grouped" =>
              \A i, j \in 1..Len(failures_by_table') :
                  i < j => failures_by_table'[i].Failures >= failures_by_table'[j].Failures
        /\ (pc = "grouped" /\ pc' = "grouped" /\ df' = df) =>
              failures_by_table' = failures_by_table ]_vars

\* the failing records of a dataset, counted per value of a column
FailuresBy(d, column) ==
    { <<k, Cardinality({ i \in FailingIndexes(d) : d[i][column] = k })>>
      : k \in { d[i][column] : i \in FailingIndexes(d) } }

\* C7: at every render the view by check type and the trend view are the
\* failing records of the filtered dataset counted per check_name and per
\* timestamp, so each view's counts add up to their number.
C7_ViewsFromFilteredData ==
    pc = "rendered" =>
        /\ SumOf(fig_check, "Failures") = Cardinality(FailingIndexes(filtered_table))
        /\ SumOf(fig_trend, "FailedChecks") = Cardinality(FailingIndexes(filtered_table))
        /\ Len(fig_check) = Cardinality(FailuresBy(filtered_table, "check_name"))
        /\ Len(fig_trend) = Cardinality(FailuresBy(filtered_table, "timestamp"))

\* C8: once the fetch has returned, the dataset stays that snapshot across
\* every later run of the script: the body of the fetch is not entered again
\* (no connection, no query), df is the cached dataset, and a run in which
\* every selector is the wildcard shows the whole dataset.
C8_SnapshotKept ==
    [][ cache # {} =>
          /\ cache' = cache
          /\ conn' = conn /\ closes' = closes /\ raw' = raw
          /\ pc' = "rendered"
          /\ df' = CachedValue
          /\ (\A f \in Fields : ~IsActive(sel', f)) => filtered_table' = CachedValue ]_vars

C8_Witness ==
    /\ pc = "rendered"
    /\ cache = {df}
    /\ \E f \in Fields : IsActive(sel, f)
    /\ Len(filtered_table) < Len(df)
    /\ Len(df) = 2

\* C9: every option list starts with "all", followed by the distinct values
\* of the column, and the first render, which shows the first options,
\* filters nothing.
C9_DefaultIsWildcard ==
    [][ pc' = "rendered" =>
          /\ \A f \in Fields :
                /\ opts'[f][1] = s_all
                /\ Range(opts'[f]) = {s_all} \cup ColumnValues(df', f)
          /\ pc = "return" =>
                /\ \A f \in Fields : sel'[f] = s_all
                /\ filtered_table' = df' ]_vars

\* C10: a connection that was opened is closed exactly once before the
\* fetch returns or lets an error out; a failed read or cast ends the run
\* with the error and without a dataset; a dataset exists only after the
\* connection was closed.
C10_ClosedExactlyOnce ==
    /\ closes <= 1
    /\ conn = "open" <=> pc \in {"try", "cast", "finally_return", "finally_raise"}
    /\ pc \in {"return", "raise"} => (conn = "closed" /\ closes = 1)
    /\ pc = "error" => (conn = "none" \/ (conn = "closed" /\ closes = 1))
    /\ pc \in {"raise", "error"} => (cache = {} /\ df = NoData)
    /\ cache # {} => (conn = "closed" /\ closes = 1)

C10_Witness ==
    /\ pc = "error"
    /\ conn = "closed"
    /\ closes = 1
    /\ raw # NoData
    /\ cache = {}

====
